---- MODULE Spec2Model ----
(***************************************************************************)
(* A model of src/NoSBMM.py: the lobby "sweatiness" simulator.             *)
(*                                                                         *)
(* Numbers.  Python floats are modelled as exact rationals <<n, d>> in     *)
(* lowest terms with d > 0.  Individual K/D samples are held as integers   *)
(* in hundredths (0.25 is 25); they become rationals when the scorer       *)
(* takes their median and mean.                                            *)
(*                                                                         *)
(* Random generators.  numpy's and Python's global generators are each a   *)
(* state word; a draw is a deterministic function of the word and moves it *)
(* on, seeding overwrites it.  The stream itself is a stand-in (a small    *)
(* congruential generator), the sampling procedures built on it follow the *)
(* library's documented algorithms.                                        *)
(***************************************************************************)
EXTENDS Integers, Sequences, FiniteSets, TLC

VARIABLES
    np_state,            \* numpy's global generator (np.random)
    py_state,            \* Python's global generator (random)
    \* what the last simulate_lobby call was given, computed and displayed
    args,                \* <<num_bots, churn_level, advanced_churn, kd_churn_cutoff>>
    raised,              \* whether the call ended in an exception
    num_humans,
    prop_used,
    humans_per_bracket,
    human_kds,
    bot_kds,
    score,               \* <<sweat, composite, median_all_kd, top10_all_kd>>
    sweat_visual,
    expected_counts,
    pct,
    score_call,          \* the last direct get_sweat_score call and its result
    combo_calls,         \* direct kd_to_sweatyness_combo calls and their ratings
    observed             \* an observer's copy of one earlier simulate_lobby result

generators == <<np_state, py_state>>

lobby == <<args, raised, num_humans, prop_used, humans_per_bracket, human_kds,
           bot_kds, score, sweat_visual, expected_counts, pct>>

vars == <<generators, lobby, score_call, combo_calls, observed>>

----------------------------------------------------------------------------
(* Exact rational arithmetic standing for float arithmetic.                *)

Abs(x) == IF x < 0 THEN -x ELSE x

RECURSIVE GCD(_, _)
GCD(a, b) == IF b = 0 THEN a ELSE GCD(b, a % b)

Rat(n, d) == LET g == GCD(Abs(n), d) IN <<n \div g, d \div g>>

R(i) == <<i, 1>>

RAdd(a, b) ==
    LET l == (a[2] \div GCD(a[2], b[2])) * b[2]
    IN  Rat(a[1] * (l \div a[2]) + b[1] * (l \div b[2]), l)

RNeg(a) == <<-a[1], a[2]>>

RSub(a, b) == RAdd(a, RNeg(b))

RMul(a, b) ==
    LET g1 == GCD(Abs(a[1]), b[2])
        g2 == GCD(Abs(b[1]), a[2])
    IN  Rat((a[1] \div g1) * (b[1] \div g2), (a[2] \div g2) * (b[2] \div g1))

\* b > 0
RDiv(a, b) == RMul(a, <<b[2], b[1]>>)

RLess(a, b) == a[1] * b[2] < b[1] * a[2]

RLeq(a, b) == a[1] * b[2] <= b[1] * a[2]

RECURSIVE RSumFrom(_, _)
RSumFrom(s, i) == IF i > Len(s) THEN R(0) ELSE RAdd(s[i], RSumFrom(s, i + 1))

\* ndarray.sum()
RSum(s) == RSumFrom(s, 1)

RECURSIVE ISumFrom(_, _)
ISumFrom(s, i) == IF i > Len(s) THEN 0 ELSE s[i] + ISumFrom(s, i + 1)

ISum(s) == ISumFrom(s, 1)

\* round(x, 1): to the nearest tenth, a tie to the even tenth
Round1(x) ==
    LET n == x[1] * 10
        d == x[2]
        f == n \div d
        r == 2 * (n - f * d)
        k == IF r < d THEN f
             ELSE IF r > d THEN f + 1
             ELSE IF f % 2 = 0 THEN f ELSE f + 1
    IN  Rat(k, 10)

\* np.clip(x, lo, hi)
Clip(x, lo, hi) == IF RLess(x, lo) THEN lo ELSE IF RLess(hi, x) THEN hi ELSE x

----------------------------------------------------------------------------
(* Module constants, lines 8-19.                                           *)

bracket_names == <<"Bottom 10%", "Next 10%", "Middle 50%",
                   "Top 20%", "Top 1%", "Top 0.1%">>

skill_brackets ==
    <<Rat(10, 100), Rat(10, 100), Rat(50, 100),
      Rat(19, 100), Rat(9, 1000), Rat(1, 1000)>>

\* np.array(list(skill_brackets.values())); no statement assigns to it or
\* to its elements (line 83 copies it first)
bracket_default_props == skill_brackets

\* in hundredths
rep_kds == <<25, 45, 75, 150, 250, 400>>

NUM_LOBBY == 150

NumBrackets == Len(bracket_names)

----------------------------------------------------------------------------
(* Scoring, lines 21-57.                                                   *)

alpha == Rat(33, 100)

beta == Rat(67, 100)

\* kd_to_sweatyness_combo with the clamp to [1, 10] left out
kd_to_sweatyness_combo_unclipped(median, top_mean) ==
    LET composite == RAdd(RMul(alpha, median), RMul(beta, top_mean))
        raw ==
            IF RLess(composite, Rat(8, 10))
            THEN RAdd(R(1), RMul(RDiv(RSub(composite, Rat(1, 10)), Rat(7, 10)), R(2)))
            ELSE IF RLess(composite, Rat(11, 10))
            THEN RAdd(R(3), RMul(RDiv(RSub(composite, Rat(8, 10)), Rat(3, 10)), R(3)))
            ELSE IF RLess(composite, Rat(15, 10))
            THEN RAdd(R(6), RMul(RDiv(RSub(composite, Rat(11, 10)), Rat(4, 10)), R(2)))
            ELSE IF RLess(composite, R(2))
            THEN RAdd(R(8), RMul(RDiv(RSub(composite, Rat(15, 10)), Rat(5, 10)), R(2)))
            ELSE R(10)
    IN  [sweat |-> Round1(raw), composite |-> composite]

\* kd_to_sweatyness_combo with the first segment rising by 3 instead of 2
kd_to_sweatyness_combo_steep(median, top_mean) ==
    LET composite == RAdd(RMul(alpha, median), RMul(beta, top_mean))
        raw ==
            IF RLess(composite, Rat(8, 10))
            THEN RAdd(R(1), RMul(RDiv(RSub(composite, Rat(1, 10)), Rat(7, 10)), R(3)))
            ELSE IF RLess(composite, Rat(11, 10))
            THEN RAdd(R(3), RMul(RDiv(RSub(composite, Rat(8, 10)), Rat(3, 10)), R(3)))
            ELSE IF RLess(composite, Rat(15, 10))
            THEN RAdd(R(6), RMul(RDiv(RSub(composite, Rat(11, 10)), Rat(4, 10)), R(2)))
            ELSE IF RLess(composite, R(2))
            THEN RAdd(R(8), RMul(RDiv(RSub(composite, Rat(15, 10)), Rat(5, 10)), R(2)))
            ELSE R(10)
    IN  [sweat |-> Clip(Round1(raw), R(1), R(10)), composite |-> composite]

kd_to_sweatyness_combo(median, top_mean) ==
    LET composite == RAdd(RMul(alpha, median), RMul(beta, top_mean))
        raw ==
            IF RLess(composite, Rat(8, 10))
            THEN RAdd(R(1), RMul(RDiv(RSub(composite, Rat(1, 10)), Rat(7, 10)), R(2)))
            ELSE IF RLess(composite, Rat(11, 10))
            THEN RAdd(R(3), RMul(RDiv(RSub(composite, Rat(8, 10)), Rat(3, 10)), R(3)))
            ELSE IF RLess(composite, Rat(15, 10))
            THEN RAdd(R(6), RMul(RDiv(RSub(composite, Rat(11, 10)), Rat(4, 10)), R(2)))
            ELSE IF RLess(composite, R(2))
            THEN RAdd(R(8), RMul(RDiv(RSub(composite, Rat(15, 10)), Rat(5, 10)), R(2)))
            ELSE R(10)
    IN  [sweat |-> Clip(Round1(raw), R(1), R(10)), composite |-> composite]

sweat_rating_emoji(sweat) ==
    IF RLess(sweat, R(4)) THEN "Chill"
    ELSE IF RLess(sweat, R(7)) THEN "Normal"
    ELSE IF RLess(sweat, R(9)) THEN "Sweaty"
    ELSE "Ultra Sweaty!"

IntLeq(a, b) == a <= b

\* np.sort
np_sort(kds) == SortSeq(kds, IntLeq)

\* np.median of a non-empty sequence of hundredths
np_median(kds) ==
    LET n == Len(kds)
        s == np_sort(kds)
    IN  IF n % 2 = 1 THEN Rat(s[(n + 1) \div 2], 100)
        ELSE Rat(s[n \div 2] + s[n \div 2 + 1], 200)

\* np.mean of a non-empty sequence of hundredths
np_mean(kds) == Rat(ISum(kds), 100 * Len(kds))

\* s[:k] in place of s[-k:]
FirstSlice(s, k) == SubSeq(s, 1, IF Len(s) > k THEN k ELSE Len(s))

\* s[-k:]
LastSlice(s, k) ==
    IF k = 0 THEN s
    ELSE SubSeq(s, (IF Len(s) > k THEN Len(s) - k ELSE 0) + 1, Len(s))

get_sweat_score(all_kds, top_n) ==
    IF Len(all_kds) = 0
    THEN [sweat |-> R(1), composite |-> R(0), median |-> R(0), top_mean |-> R(0)]
    ELSE LET median == np_median(all_kds)
             topk == IF Len(all_kds) >= top_n
                     THEN LastSlice(np_sort(all_kds), top_n)
                     ELSE all_kds
             top_mean == np_mean(topk)
             c == kd_to_sweatyness_combo(median, top_mean)
         IN  [sweat |-> c.sweat, composite |-> c.composite,
              median |-> median, top_mean |-> top_mean]

----------------------------------------------------------------------------
(* The two global random generators, lines 5, 65-66, 90, 95, 97.          *)

\* the seed both generators are reset to
SEED == 42

NpModulus == 65537

PyModulus == 30269

NpIncrement == 40503

PyIncrement == 18707

\* the state of numpy's stream i draws after state s; a draw's uniform value
\* is u = state / NpModulus in [0, 1)
NpDraw(s, i) == (s + i * NpIncrement) % NpModulus

\* the same for Python's stream
PyDraw(s, i) == (s + i * PyIncrement) % PyModulus

\* a seed call that leaves the generator as it was
np_random_seed_kept(old, seed) == old

\* np.random.seed(seed): the old state is overwritten
np_random_seed(old, seed) == seed % NpModulus

\* random.seed(seed): the old state is overwritten
random_seed(old, seed) == seed % PyModulus

\* One binomial draw: the successes among n trials, each a uniform draw
\* compared with p.  Returns <<count, state>>.
np_random_binomial(n, p, s) ==
    IF n = 0 \/ p[1] <= 0 THEN <<0, s>>
    ELSE <<Cardinality({i \in 1..n : NpDraw(s, i) * p[2] < p[1] * NpModulus}),
           NpDraw(s, n)>>

\* The loop of np.random.multinomial over the first d-1 categories:
\* counts[j] = binomial(dn, pvals[j] / Sum); dn -= counts[j];
\* stop when dn <= 0; Sum -= pvals[j].  The last category takes what is left.
RECURSIVE MultinomialFrom(_, _, _, _, _, _)
MultinomialFrom(pvals, j, dn, Sum, s, counts) ==
    IF j = Len(pvals)
    THEN <<Append(counts, IF dn > 0 THEN dn ELSE 0), s>>
    ELSE IF dn <= 0
    THEN MultinomialFrom(pvals, j + 1, dn, Sum, s, Append(counts, 0))
    ELSE LET p == IF Sum[1] > 0 THEN RDiv(pvals[j], Sum) ELSE R(0)
             b == np_random_binomial(dn, p, s)
         IN  MultinomialFrom(pvals, j + 1, dn - b[1], RSub(Sum, pvals[j]),
                             b[2], Append(counts, b[1]))

\* every bracket drawn on its own, binomial(n, pvals[j]), in place of the
\* multinomial draw
independent_binomials(n, pvals, s) ==
    [raised |-> FALSE,
     counts |-> [j \in 1..Len(pvals) |->
                    np_random_binomial(n, pvals[j], NpDraw(s, (j - 1) * n))[1]],
     state |-> NpDraw(s, Len(pvals) * n)]

\* np.random.multinomial(n, pvals): ValueError when a pval is outside [0, 1]
\* or the first d-1 of them sum to more than 1.
np_random_multinomial(n, pvals, s) ==
    IF \/ \E j \in 1..Len(pvals) : RLess(pvals[j], R(0)) \/ RLess(R(1), pvals[j])
       \/ RLess(R(1), RSum(SubSeq(pvals, 1, Len(pvals) - 1)))
    THEN [raised |-> TRUE, counts |-> <<>>, state |-> s]
    ELSE LET m == MultinomialFrom(pvals, 1, n, R(1), s, <<>>)
         IN  [raised |-> FALSE, counts |-> m[1], state |-> m[2]]

\* the spread of a bracket's K/D values, in hundredths
KD_SCALE == 5

\* the floor of a human K/D, in hundredths
KD_FLOOR == 5

\* One np.random.normal(loc, scale) draw, in hundredths: loc + scale * z with
\* z a multiple of 1/5 between -4.6 and 4.6 taken from the stream.
NormalDraw(loc, scale, s) == loc + (scale * ((s % 47) - 23)) \div 5

\* list(np.clip(np.random.normal(loc, scale, size=count), 0.05, None)).
\* Returns <<samples, state>>.
NormalSamples(loc, count, s) ==
    <<[i \in 1..count |->
          LET x == NormalDraw(loc, KD_SCALE, NpDraw(s, i))
          IN  IF x < KD_FLOOR THEN KD_FLOOR ELSE x],
      NpDraw(s, count)>>

\* the loop of lines 93-96 over zip(humans_per_bracket, rep_kds)
RECURSIVE HumanKds(_, _, _, _)
HumanKds(counts, j, s, acc) ==
    IF j > Len(counts) THEN <<acc, s>>
    ELSE LET r == NormalSamples(rep_kds[j], counts[j], s)
         IN  HumanKds(counts, j + 1, r[2], acc \o r[1])

BOT_KD_LOW == 10

BOT_KD_HIGH == 60

\* [random.uniform(0.1, 0.6) for _ in range(num_bots)], in hundredths:
\* a + (b - a) * random().  Returns <<samples, state>>.
BotKds(n, s) ==
    <<[i \in 1..n |->
          BOT_KD_LOW + ((BOT_KD_HIGH - BOT_KD_LOW) * PyDraw(s, i)) \div PyModulus],
      PyDraw(s, n)>>

----------------------------------------------------------------------------
(* Churn, lines 70-87.                                                     *)

\* ThresholdChurn keeping only the brackets strictly above the cutoff
ThresholdChurnStrict(kd_churn_cutoff) ==
    LET masked == [j \in 1..NumBrackets |->
                      IF rep_kds[j] > kd_churn_cutoff
                      THEN bracket_default_props[j] ELSE R(0)]
        total_prop == RSum(masked)
    IN  IF total_prop = R(0)
        THEN [j \in 1..NumBrackets |-> IF j = NumBrackets THEN R(1) ELSE R(0)]
        ELSE [j \in 1..NumBrackets |-> RDiv(masked[j], total_prop)]

\* ThresholdChurn with the failsafe putting everyone in the first bracket
ThresholdChurnFirst(kd_churn_cutoff) ==
    LET masked == [j \in 1..NumBrackets |->
                      IF rep_kds[j] >= kd_churn_cutoff
                      THEN bracket_default_props[j] ELSE R(0)]
        total_prop == RSum(masked)
    IN  IF total_prop = R(0)
        THEN [j \in 1..NumBrackets |-> IF j = 1 THEN R(1) ELSE R(0)]
        ELSE [j \in 1..NumBrackets |-> RDiv(masked[j], total_prop)]

\* advanced_churn: keep the brackets with rep_kd >= cutoff, renormalise, or
\* put everything in the last bracket when nothing is kept
ThresholdChurn(kd_churn_cutoff) ==
    LET keep_mask == [j \in 1..NumBrackets |-> rep_kds[j] >= kd_churn_cutoff]
        masked == [j \in 1..NumBrackets |->
                      IF keep_mask[j] THEN bracket_default_props[j] ELSE R(0)]
        total_prop == RSum(masked)
    IN  IF total_prop = R(0)
        THEN [j \in 1..NumBrackets |-> IF j = NumBrackets THEN R(1) ELSE R(0)]
        ELSE [j \in 1..NumBrackets |-> RDiv(masked[j], total_prop)]

\* ProportionalChurn without the renormalisation
ProportionalChurnRaw(churn_level) ==
    [j \in 1..NumBrackets |->
        IF j <= 2
        THEN RMul(bracket_default_props[j], RSub(R(1), churn_level))
        ELSE bracket_default_props[j]]

\* otherwise: scale the two lowest brackets by 1 - churn_level, renormalise
ProportionalChurn(churn_level) ==
    LET scaled == [j \in 1..NumBrackets |->
                      IF j <= 2
                      THEN RMul(bracket_default_props[j], RSub(R(1), churn_level))
                      ELSE bracket_default_props[j]]
        total == RSum(scaled)
    IN  [j \in 1..NumBrackets |-> RDiv(scaled[j], total)]

----------------------------------------------------------------------------
(* simulate_lobby, lines 59-135.  np0 and py0 are the generators' states   *)
(* when the call starts; the result carries their states when it ends.     *)

TOP_N == 10

Score(sc) == <<sc.sweat, sc.composite, sc.median, sc.top_mean>>

simulate_lobby(num_bots, churn_level, advanced_churn, kd_churn_cutoff, np0, py0) ==
    LET py1 == random_seed(py0, SEED)
        np1 == np_random_seed(np0, SEED)
        n_humans == NUM_LOBBY - num_bots
        props == IF advanced_churn THEN ThresholdChurn(kd_churn_cutoff)
                 ELSE ProportionalChurn(churn_level)
        m == np_random_multinomial(n_humans, props, np1)
    IN  IF m.raised
        THEN [np |-> m.state, py |-> py1, raised |-> TRUE,
              num_humans |-> n_humans, prop_used |-> props,
              humans_per_bracket |-> <<>>, human_kds |-> <<>>, bot_kds |-> <<>>,
              score |-> <<R(0), R(0), R(0), R(0)>>, sweat_visual |-> "",
              expected_counts |-> <<>>, pct |-> <<>>]
        ELSE
        LET h == HumanKds(m.counts, 1, m.state, <<>>)
            b == BotKds(num_bots, py1)
            sc == get_sweat_score(h[1] \o b[1], TOP_N)
        IN  [np |-> h[2], py |-> b[2], raised |-> FALSE,
             num_humans |-> n_humans, prop_used |-> props,
             humans_per_bracket |-> m.counts,
             human_kds |-> h[1], bot_kds |-> b[1],
             score |-> Score(sc),
             sweat_visual |-> sweat_rating_emoji(sc.sweat),
             expected_counts |->
                 [j \in 1..NumBrackets |-> RMul(R(n_humans), props[j])],
             pct |-> IF n_humans > 0
                     THEN [j \in 1..NumBrackets |->
                              RMul(Rat(m.counts[j], n_humans), R(100))]
                     ELSE [j \in 1..NumBrackets |-> R(0)]]

----------------------------------------------------------------------------
(* The session: the module is imported, interact() shows the controls and  *)
(* calls simulate_lobby once with their initial values (lines 138-144);    *)
(* after that every call of one of the module's functions is one step.     *)
(* A direct call of a scoring function is written down first (its          *)
(* arguments) and then carried out.                                        *)

\* IntSlider(min=0, max=140, step=10)
BOT_SLIDER_MAX == 140

BOT_SLIDER_STEP == 10

NumBotsValues == {BOT_SLIDER_STEP * i : i \in 0..(BOT_SLIDER_MAX \div BOT_SLIDER_STEP)}

\* FloatSlider(min=0, max=1, step=0.05)
ChurnLevels == {Rat(5 * i, 100) : i \in 0..20}

\* K/D cutoffs in hundredths: every position of FloatSlider(min=0.1, max=2.0,
\* step=0.05), and cutoffs only a direct call can pass (above the slider's
\* 2.0, the last one above every representative K/D)
Cutoffs == {5 * i : i \in 2..40} \cup {250, 400, 405}

\* the defaults of simulate_lobby's parameters, line 60-63, and of the controls
DEFAULT_BOTS == 0

DEFAULT_CUTOFF == 85

DefaultChurn == R(0)

\* states an unseeded generator may be in when the module is loaded
MaxEntropy == 2

NoCall == <<>>

\* the call's results become the displayed state
Shown(r, a) ==
    /\ np_state' = r.np
    /\ py_state' = r.py
    /\ args' = a
    /\ raised' = r.raised
    /\ num_humans' = r.num_humans
    /\ prop_used' = r.prop_used
    /\ humans_per_bracket' = r.humans_per_bracket
    /\ human_kds' = r.human_kds
    /\ bot_kds' = r.bot_kds
    /\ score' = r.score
    /\ sweat_visual' = r.sweat_visual
    /\ expected_counts' = r.expected_counts
    /\ pct' = r.pct

\* interact(simulate_lobby, ...): the first call, with the controls' values
Interact ==
    \E e1 \in 1..MaxEntropy, e2 \in 1..MaxEntropy :
        \E r \in {simulate_lobby(DEFAULT_BOTS, DefaultChurn, FALSE, DEFAULT_CUTOFF, e1, e2)} :
            /\ np_state = r.np
            /\ py_state = r.py
            /\ args = <<DEFAULT_BOTS, DefaultChurn, FALSE, DEFAULT_CUTOFF>>
            /\ raised = r.raised
            /\ num_humans = r.num_humans
            /\ prop_used = r.prop_used
            /\ humans_per_bracket = r.humans_per_bracket
            /\ human_kds = r.human_kds
            /\ bot_kds = r.bot_kds
            /\ score = r.score
            /\ sweat_visual = r.sweat_visual
            /\ expected_counts = r.expected_counts
            /\ pct = r.pct

Init ==
    /\ Interact
    /\ score_call = NoCall
    /\ combo_calls = NoCall
    /\ observed = NoCall

\* the observer counts the calls made since its copy, up to two
Later(o) == IF o = NoCall THEN NoCall ELSE <<o[1], IF o[2] < 2 THEN o[2] + 1 ELSE 2>>

SimulateLobby(num_bots, churn_level, advanced_churn, kd_churn_cutoff) ==
    \E r \in {simulate_lobby(num_bots, churn_level, advanced_churn,
                             kd_churn_cutoff, np_state, py_state)} :
        /\ Shown(r, <<num_bots, churn_level, advanced_churn, kd_churn_cutoff>>)
        /\ observed' = Later(observed)
        /\ UNCHANGED <<score_call, combo_calls>>

\* Every control position in either churn mode; the parameter the mode does
\* not read stays at its default.
Next ==
    \/ \E num_bots \in NumBotsValues, churn_level \in ChurnLevels :
           SimulateLobby(num_bots, churn_level, FALSE, DEFAULT_CUTOFF)
    \/ \E num_bots \in NumBotsValues, kd_churn_cutoff \in Cutoffs :
           SimulateLobby(num_bots, DefaultChurn, TRUE, kd_churn_cutoff)

Spec == Init /\ [][Next]_vars

----------------------------------------------------------------------------
(* Repeated calls, watched by an observer who keeps a copy of one result.  *)

ReplayBots == {0, 70, 140}

ReplayChurn == {R(0), Rat(1, 2)}

ReplayCutoffs == {85, 405}

Observe ==
    /\ observed' = <<lobby, 0>>
    /\ UNCHANGED <<generators, lobby, score_call, combo_calls>>

NextReplay ==
    \/ \E num_bots \in ReplayBots, churn_level \in ReplayChurn :
           SimulateLobby(num_bots, churn_level, FALSE, DEFAULT_CUTOFF)
    \/ \E num_bots \in ReplayBots, kd_churn_cutoff \in ReplayCutoffs :
           SimulateLobby(num_bots, DefaultChurn, TRUE, kd_churn_cutoff)
    \/ Observe

SpecReplay == Init /\ [][NextReplay]_vars

----------------------------------------------------------------------------
(* Direct calls of get_sweat_score.                                        *)

\* K/D values, in hundredths, the direct calls pass
KdValues == {35, 260}

MaxKds == 11

TopNs == {3, TOP_N}

KdLists == UNION {[1..n -> KdValues] : n \in 0..MaxKds}

InitScore ==
    /\ Interact
    /\ score_call \in {<<kds, top_n>> : kds \in KdLists, top_n \in TopNs}
    /\ combo_calls = NoCall
    /\ observed = NoCall

GetSweatScore ==
    /\ Len(score_call) = 2
    /\ score_call' = Append(score_call, Score(get_sweat_score(score_call[1], score_call[2])))
    /\ UNCHANGED <<generators, lobby, combo_calls, observed>>

NextScore == GetSweatScore

SpecScore == InitScore /\ [][NextScore]_vars

----------------------------------------------------------------------------
(* Direct calls of kd_to_sweatyness_combo and sweat_rating_emoji: one     *)
(* call, or two calls one after the other.                                 *)

\* medians and top means of single calls: 0, 0.05, ... up to MaxKdStep / 20
MaxKdStep == 50

KdGrid == {Rat(5 * i, 100) : i \in 0..MaxKdStep}

\* composites of call pairs: a coarse grid, and the thousandths around each
\* breakpoint of the mapping
MaxCompositeStep == 55

Breakpoints == {800, 1100, 1500, 2000}

CompositeGrid ==
    {Rat(4 * i, 100) : i \in 0..MaxCompositeStep}
        \cup {Rat(b + d, 1000) : b \in Breakpoints, d \in -2..2}

InitCombo ==
    /\ Interact
    /\ score_call = NoCall
    /\ combo_calls \in {<< <<m, t>> >> : m \in KdGrid, t \in KdGrid}
                         \cup {<< <<c1, c1>>, <<c2, c2>> >> : c1 \in CompositeGrid,
                                                               c2 \in CompositeGrid}
    /\ observed = NoCall

\* the next call not yet made
Pending(i) ==
    /\ i \in 1..Len(combo_calls)
    /\ Len(combo_calls[i]) = 2
    /\ \A k \in 1..(i - 1) : Len(combo_calls[k]) = 5

KdToSweatynessCombo ==
    \E i \in 1..Len(combo_calls) :
        /\ Pending(i)
        /\ \E r \in {kd_to_sweatyness_combo(combo_calls[i][1], combo_calls[i][2])} :
               combo_calls' = [combo_calls EXCEPT ![i] = <<@[1], @[2], r.sweat, r.composite>>]
        /\ UNCHANGED <<generators, lobby, score_call, observed>>

SweatRatingEmoji ==
    \E i \in 1..Len(combo_calls) :
        /\ Len(combo_calls[i]) = 4
        /\ combo_calls' = [combo_calls EXCEPT ![i] = Append(@, sweat_rating_emoji(@[3]))]
        /\ UNCHANGED <<generators, lobby, score_call, observed>>

NextCombo == KdToSweatynessCombo \/ SweatRatingEmoji

SpecCombo == InitCombo /\ [][NextCombo]_vars

----------------------------------------------------------------------------
(* Properties.                                                             *)

Advanced == args[3]

Cutoff == args[4]

HighestKd == rep_kds[NumBrackets]

\* C1: for every bot count of the control (0..140 in steps of 10) and every
\* churn setting in either mode, simulate_lobby ends without an exception and
\* its per-bracket human counts are six non-negative integers whose sum is
\* exactly num_humans = 150 - num_bots.
C1_CountsSumToHumans ==
    /\ raised = FALSE
    /\ num_humans = NUM_LOBBY - args[1]
    /\ Len(humans_per_bracket) = 6
    /\ \A j \in 1..6 : humans_per_bracket[j] \in Nat
    /\ ISum(humans_per_bracket) = num_humans

C1_Witness ==
    /\ args = <<140, Rat(1, 2), FALSE, DEFAULT_CUTOFF>>
    /\ num_humans = 10
    /\ Cardinality({j \in 1..6 : humans_per_bracket[j] > 0}) >= 2
    /\ ISum(humans_per_bracket) = 10

\* C2: the six proportions handed to the multinomial sampler sum to 1 after
\* the churn adjustment, in proportional mode for every churn level (also 1,
\* where the two lowest brackets are zero) and in threshold mode for every
\* cutoff (renormalised or moved to the last bracket).
C2_ProportionsSumToOne ==
    /\ Len(prop_used) = 6
    /\ RSum(prop_used) = R(1)

C2_Witness ==
    /\ ~Advanced
    /\ args[2] = R(1)
    /\ prop_used[1] = R(0)
    /\ prop_used[2] = R(0)
    /\ prop_used[3] = Rat(5, 7)
    /\ RSum(prop_used) = R(1)

\* C3: there are six skill brackets, one proportion used per bracket, and
\* the brackets' default proportions sum to 1.
C3_DefaultsSumToOne ==
    /\ Len(prop_used) = Len(bracket_default_props)
    /\ Len(bracket_default_props) = 6
    /\ RSum(bracket_default_props) = R(1)

\* C4: with no bots, churn level 0 and proportional churn, the proportions
\* used for sampling and for the expected counts are the unmodified defaults
\* (0.10, 0.10, 0.50, 0.19, 0.009, 0.001).
C4_DefaultsUsedUnchanged ==
    (args[1] = 0 /\ args[2] = R(0) /\ ~Advanced) =>
        /\ prop_used = <<Rat(10, 100), Rat(10, 100), Rat(50, 100),
                         Rat(19, 100), Rat(9, 1000), Rat(1, 1000)>>
        /\ expected_counts = <<R(15), R(15), R(75), Rat(285, 10),
                               Rat(135, 100), Rat(15, 100)>>

\* the defaults of the brackets a cutoff keeps, summed
KeptTotal(cutoff) ==
    RSum([j \in 1..6 |-> IF rep_kds[j] >= cutoff THEN bracket_default_props[j] ELSE R(0)])

\* the brackets below the cutoff, and only they, have proportion 0 and no
\* humans; the others have their default over the kept total
ChurnedBelow(cutoff) ==
    /\ \A j \in 1..6 :
        /\ rep_kds[j] < cutoff <=> prop_used[j] = R(0)
        /\ rep_kds[j] < cutoff => humans_per_bracket[j] = 0
        /\ rep_kds[j] >= cutoff =>
               prop_used[j] = RDiv(bracket_default_props[j], KeptTotal(cutoff))
    /\ cutoff = 85 =>
        /\ \A j \in 1..3 : prop_used[j] = R(0) /\ humans_per_bracket[j] = 0
        /\ RAdd(prop_used[4], RAdd(prop_used[5], prop_used[6])) = R(1)

\* C5 as stated: in threshold mode, for every cutoff, exactly the brackets
\* whose representative K/D is strictly below the cutoff get proportion 0 (and
\* no humans), every other bracket its default divided by the kept total.
C5_ExactlyBelowCutoffChurned == Advanced => ChurnedBelow(Cutoff)

\* C5 as amended: the same, for the cutoffs that keep at least one bracket
\* (cutoff at most the highest representative K/D, 4.0).
C5_BelowCutoffChurnedWhenSomeKept ==
    (Advanced /\ Cutoff <= HighestKd) => ChurnedBelow(Cutoff)

C5_Witness ==
    /\ args = <<0, R(0), TRUE, 85>>
    /\ prop_used = <<R(0), R(0), R(0), Rat(19, 20), Rat(9, 200), Rat(1, 200)>>
    /\ humans_per_bracket[4] > 0
    /\ humans_per_bracket[4] + humans_per_bracket[5] + humans_per_bracket[6] = 150

\* C6: in threshold mode with a cutoff above the highest representative K/D
\* (4.0), simulate_lobby does not fail: the last bracket has proportion 1, the
\* other five 0, and all the humans are sampled into the last bracket.
C6_AllChurnedFallback ==
    (Advanced /\ Cutoff > HighestKd) =>
        /\ raised = FALSE
        /\ prop_used = <<R(0), R(0), R(0), R(0), R(0), R(1)>>
        /\ humans_per_bracket = <<0, 0, 0, 0, 0, num_humans>>

C6_Witness ==
    /\ args = <<70, R(0), TRUE, 405>>
    /\ raised = FALSE
    /\ prop_used[6] = R(1)
    /\ humans_per_bracket = <<0, 0, 0, 0, 0, 80>>

\* a score in tenths, when it is a whole number of tenths
Tenths(x) == x[1] * (10 \div x[2])

\* C7: for non-negative median and top mean, the sweat value that
\* kd_to_sweatyness_combo returns is in [1, 10] and a multiple of 0.1 (also
\* for composites below 0.1 and from 2.0 up), and sweat_rating_emoji gives it
\* the one label of the four that the thresholds <4, <7, <9, else select.
C7_SweatInRangeAndLabelled ==
    \A i \in 1..Len(combo_calls) :
        LET c == combo_calls[i]
        IN  /\ Len(c) >= 4 =>
                /\ c[3][1] >= c[3][2]
                /\ c[3][1] <= 10 * c[3][2]
                /\ 10 % c[3][2] = 0
            /\ Len(c) = 5 =>
                c[5] = CASE Tenths(c[3]) < 40 -> "Chill"
                         [] Tenths(c[3]) >= 40 /\ Tenths(c[3]) < 70 -> "Normal"
                         [] Tenths(c[3]) >= 70 /\ Tenths(c[3]) < 90 -> "Sweaty"
                         [] Tenths(c[3]) >= 90 -> "Ultra Sweaty!"

C7_Witness ==
    /\ Len(combo_calls) = 1
    /\ Len(combo_calls[1]) = 5
    /\ combo_calls[1][4] = Rat(5, 100)
    /\ combo_calls[1][3] = R(1)
    /\ combo_calls[1][5] = "Chill"

ObservedArgs == observed[1][1]

\* C8: two simulate_lobby calls with the same arguments give the same
\* per-bracket counts, the same K/D sequences and the same score, whatever
\* calls were made before or between them.
C8_SameArgsSameResult ==
    (observed # NoCall /\ ObservedArgs = args) =>
        /\ observed[1][5] = humans_per_bracket
        /\ observed[1][6] = human_kds
        /\ observed[1][7] = bot_kds
        /\ observed[1][8] = score

C8_Witness ==
    /\ observed # NoCall
    /\ observed[2] = 2
    /\ ObservedArgs = args
    /\ args = <<70, R(0), TRUE, 405>>
    /\ observed[1][6] = human_kds
    /\ Len(human_kds) = 80

\* the sum of the k largest values of s, taken one maximum at a time
RECURSIVE LargestSum(_, _)
LargestSum(s, k) ==
    IF k = 0 \/ Len(s) = 0 THEN 0
    ELSE LET i == CHOOSE i \in 1..Len(s) : \A j \in 1..Len(s) : s[j] <= s[i]
         IN  s[i] + LargestSum(SubSeq(s, 1, i - 1) \o SubSeq(s, i + 1, Len(s)), k - 1)

\* C9: get_sweat_score of an empty sequence returns score 1 with composite,
\* median and top mean 0; of a non-empty sequence shorter than top_n, the top
\* mean is the mean of all values; otherwise it is the mean of the top_n
\* largest values.
C9_ScoreOfList ==
    Len(score_call) = 3 =>
        LET kds == score_call[1]
            top_n == score_call[2]
            ret == score_call[3]
        IN  IF Len(kds) = 0 THEN ret = <<R(1), R(0), R(0), R(0)>>
            ELSE IF Len(kds) < top_n
            THEN ret[4] = Rat(LargestSum(kds, Len(kds)), 100 * Len(kds))
            ELSE ret[4] = Rat(LargestSum(kds, top_n), 100 * top_n)

C9_Witness ==
    /\ Len(score_call) = 3
    /\ score_call[1] = <<260, 35, 35, 260, 35, 35, 35, 35, 35, 35, 35>>
    /\ score_call[2] = 10
    /\ score_call[3][4] = Rat(260 + 260 + 8 * 35, 1000)

\* C10: the mapping from composite to sweat does not decrease and does not
\* jump: of two calls the one with the larger composite has the larger or
\* equal score, composites a thousandth apart have scores at most a tenth
\* apart, and at the breakpoints 0.8, 1.1, 1.5 and 2.0 the score is 3, 6, 8
\* and 10.
C10_MonotoneNoJump ==
    /\ \A i \in 1..Len(combo_calls) :
        LET c == combo_calls[i]
        IN  Len(c) >= 4 =>
                /\ c[4] = Rat(8, 10) => c[3] = R(3)
                /\ c[4] = Rat(11, 10) => c[3] = R(6)
                /\ c[4] = Rat(15, 10) => c[3] = R(8)
                /\ c[4] = R(2) => c[3] = R(10)
    /\ (Len(combo_calls) = 2 /\ Len(combo_calls[1]) >= 4 /\ Len(combo_calls[2]) >= 4) =>
        LET a == combo_calls[1]
            b == combo_calls[2]
        IN  RLeq(a[4], b[4]) =>
                /\ RLeq(a[3], b[3])
                /\ RLeq(RSub(b[4], a[4]), Rat(1, 1000)) =>
                       RLeq(RSub(b[3], a[3]), Rat(1, 10))

C10_Witness ==
    /\ Len(combo_calls) = 2
    /\ Len(combo_calls[1]) = 5
    /\ Len(combo_calls[2]) = 5
    /\ combo_calls[1][4] = Rat(1099, 1000)
    /\ combo_calls[2][4] = Rat(11, 10)
    /\ combo_calls[1][3] = R(6)
    /\ combo_calls[2][3] = R(6)

====
